---- MODULE Spec2Model ----
(***************************************************************************)
(* Model of httpclientutil.ClientConn (src/httpclientutil/client.go): one  *)
(* persistent HTTP/1.1 client connection driven by a single caller (Do),   *)
(* a background readLoop goroutine, a controlling goroutine that may call   *)
(* Ping, Hijack and Close at any time, and the server at the far end of    *)
(* the transport.  Every action is one step of the code between two        *)
(* points at which another goroutine can observe or change shared state:   *)
(* a critical section under cc.mu, a channel operation, or a transport     *)
(* call.                                                                   *)
(***************************************************************************)
EXTENDS Integers, Sequences, FiniteSets, TLC

\* ---------------------------------------------------------------- bounds
\* Number of Do calls the caller issues on the connection.
MaxReqs == 2

\* ------------------------------------------------------- program constants
Nil == "nil"

ErrPersistEOF == "ErrPersistEOF"
ErrBodyWaitingRead == "ErrBodyWaitingRead"
ErrBodyLeftData == "ErrBodyLeftData"
ErrServerClosedConn == "ErrServerClosedConn"
errClosed == "errClosed"

\* Errors that come from the collaborators: ctx.Err() of a request whose
\* context is done, the error of http.ReadResponse, the error of writeReq.
ctxErr == "context.Canceled"
parseErr == "ReadResponseError"
writeErr == "WriteRequestError"

\* Capacities of the channels made in NewClientConn and readLoop.
ReqChCap == 1
RespChCap == 1
WaitForBodyReadCap == 2

\* ------------------------------------------------ requests and responses
Methods == {"GET", "HEAD"}

\* What the server puts on the wire for one request:
\*   ok       200, Content-Length 5, keep-alive
\*   okClose  200, Content-Length 5, Connection: close
\*   empty    200, Content-Length 0
\*   info     100 Continue (net/http gives 1xx a ContentLength of 0)
\*   bad      bytes http.ReadResponse rejects
RespKinds == {"ok", "okClose", "empty", "info", "bad"}

StatusCode(kind) == IF kind = "info" THEN 100 ELSE 200
ContentLength(kind) == IF kind \in {"ok", "okClose"} THEN 5 ELSE 0
RespClose(kind) == kind = "okClose"

NoReq == [id |-> 0, Method |-> "GET", Close |-> FALSE]
NoResp == [Request |-> NoReq, answers |-> 0, kind |-> "ok"]

VARIABLES
    mu,              \* cc.mu: "free", or the goroutine that holds it
    conn,            \* cc.conn: "c" or Nil
    r,               \* cc.r: "r" or Nil
    bodyReading,     \* cc.bodyReading
    re, we,          \* cc.re, cc.we
    reqch,           \* cc.reqch, capacity 1
    respch,          \* cc.respch, capacity 1
    closech,         \* cc.closech: Nil (never made), "open" or "closed"
    callerPc,        \* position of the caller inside Do
    curReq,          \* the request of the current (or latest) Do
    wc,              \* write's local c (line 79)
    held,            \* the response the latest successful Do returned
    lastErr,         \* the error the latest Do returned (Nil: a response)
    lastDo,          \* how the latest Do ended
    bodyOf,          \* state of the Body-Drain Signal of each response
    rlPc,            \* position of readLoop
    alive,           \* readLoop's local alive
    rc,              \* readLoop's local rc
    resp,            \* readLoop's local resp
    waitForBodyRead, \* readLoop's local channel, capacity 2
    pending,         \* requests the server has received and not answered
    wireIn,          \* responses sent by the server, not yet parsed
    serverClosed,    \* the server closed its side: EOF after wireIn
    closePc,         \* position of the controlling goroutine inside Close
    lastPing,        \* result of the latest Ping call
    lastHijack,      \* the pair (c, r) the latest Hijack call returned
    nReturned,       \* Hijack calls that returned the transport to a caller
    nClosed,         \* calls of c.Close() on the transport
    panicked         \* "none", or the statement that panicked

vars == <<mu, conn, r, bodyReading, re, we, reqch, respch, closech, callerPc,
          curReq, wc, held, lastErr, lastDo, bodyOf, rlPc, alive, rc, resp,
          waitForBodyRead, pending, wireIn, serverClosed, closePc, lastPing,
          lastHijack, nReturned, nClosed, panicked>>

ccVars == <<conn, r, bodyReading, re, we, reqch, respch, closech>>
callerVars == <<callerPc, curReq, wc, held, lastErr, lastDo>>
loopVars == <<rlPc, alive, rc, resp, waitForBodyRead>>
serverVars == <<pending, wireIn, serverClosed>>
ctlVars == <<closePc, lastPing, lastHijack, nReturned, nClosed>>

\* NewClientConn: conn and r set, both queues made with capacity 1, closech
\* left at its zero value, readLoop started.
Init ==
    /\ mu = "free"
    /\ conn = "c" /\ r = "r"
    /\ bodyReading = FALSE
    /\ re = Nil /\ we = Nil
    /\ reqch = <<>> /\ respch = <<>>
    /\ closech = Nil
    /\ callerPc = "idle" /\ curReq = NoReq /\ wc = Nil
    /\ held = NoResp /\ lastErr = Nil /\ lastDo = "none"
    /\ bodyOf = [i \in 1..MaxReqs |-> "none"]
    /\ rlPc = "peek" /\ alive = TRUE /\ rc = NoReq /\ resp = NoResp
    /\ waitForBodyRead = <<>>
    /\ pending = <<>> /\ wireIn = <<>> /\ serverClosed = FALSE
    /\ closePc = "idle" /\ lastPing = "none" /\ lastHijack = <<"none", "none">>
    /\ nReturned = 0 /\ nClosed = 0
    /\ panicked = "none"

Running == panicked = "none"

\* ------------------------------------------------------ connection state
\* cc.mu.Lock() waits until the mutex is free; cc.mu.Unlock() frees it.  An
\* action that is one critical section takes the mutex and gives it back.
Lock == mu = "free"
Unlock == mu' = "free"

\* Ping without the test of the read error.
PingIgnoresReadError ==
    IF we # Nil THEN we
    ELSE IF conn = Nil THEN errClosed
    ELSE Nil

\* Ping without the test of the detached transport.
PingWithoutClosedCheck ==
    IF re # Nil THEN re
    ELSE IF we # Nil THEN we
    ELSE Nil

\* Ping: the sticky read error, else the sticky write error, else errClosed
\* once the transport is detached, else success.
Ping ==
    IF re # Nil THEN re
    ELSE IF we # Nil THEN we
    ELSE IF conn = Nil THEN errClosed
    ELSE Nil

\* waitForBody: the body-in-progress flag.
waitForBody == bodyReading

\* setReadError that leaves cc.re as it is.
setReadErrorDropped(err) == re

\* setReadError: the new value of cc.re.
setReadError(err) == err

\* setBodyReading: the new value of cc.bodyReading.
setBodyReading(flag) == flag

\* A Ping call by any goroutine.
CallPing ==
    /\ Lock /\ Unlock
    /\ Running
    /\ lastPing' = Ping
    /\ UNCHANGED <<ccVars, callerVars, bodyOf, loopVars, serverVars, closePc,
                   lastHijack, nReturned, nClosed, panicked>>

\* ------------------------------------------------------------ write path
\* Do is called with a new request: write's liveness check (lines 72-74).
write_Ping ==
    /\ Lock /\ Unlock
    /\ Running /\ callerPc = "idle" /\ curReq.id < MaxReqs
    /\ \E m \in Methods, cl \in BOOLEAN :
         curReq' = [id |-> curReq.id + 1, Method |-> m, Close |-> cl]
    /\ IF Ping # Nil
       THEN /\ callerPc' = "idle"
            /\ lastErr' = Ping /\ lastDo' = "rejected"
       ELSE /\ callerPc' = "w_waitForBody"
            /\ UNCHANGED <<lastErr, lastDo>>
    /\ UNCHANGED <<ccVars, wc, held, bodyOf, loopVars, serverVars, ctlVars,
                   panicked>>

\* write's body-still-pending check placed after the final-request
\* sentinel is recorded.
write_waitForBodyAfterSentinel ==
    /\ Lock /\ Unlock
    /\ Running /\ callerPc = "w_waitForBody"
    /\ we' = IF curReq.Close THEN ErrPersistEOF ELSE we
    /\ IF waitForBody
       THEN /\ callerPc' = "idle"
            /\ lastErr' = ErrBodyWaitingRead /\ lastDo' = "rejected"
       ELSE /\ callerPc' = "w_lock"
            /\ UNCHANGED <<lastErr, lastDo>>
    /\ UNCHANGED <<conn, r, bodyReading, re, reqch, respch, closech, curReq,
                   wc, held, bodyOf, loopVars, serverVars, ctlVars, panicked>>

\* write's body-still-pending check (lines 75-77).
write_waitForBody ==
    /\ Lock /\ Unlock
    /\ Running /\ callerPc = "w_waitForBody"
    /\ IF waitForBody
       THEN /\ callerPc' = "idle"
            /\ lastErr' = ErrBodyWaitingRead /\ lastDo' = "rejected"
       ELSE /\ callerPc' = "w_lock"
            /\ UNCHANGED <<lastErr, lastDo>>
    /\ UNCHANGED <<ccVars, curReq, wc, held, bodyOf, loopVars, serverVars,
                   ctlVars, panicked>>

\* write's first critical section without its Unlock: the mutex stays held
\* over writeReq.
write_lockHoldsMutex ==
    /\ Lock /\ mu' = "caller"
    /\ Running /\ callerPc = "w_lock"
    /\ wc' = conn
    /\ we' = IF curReq.Close THEN ErrPersistEOF ELSE we
    /\ callerPc' = "w_writeReq"
    /\ UNCHANGED <<conn, r, bodyReading, re, reqch, respch, closech, curReq,
                   held, lastErr, lastDo, bodyOf, loopVars, serverVars,
                   ctlVars, panicked>>

\* write's first critical section without the final-request sentinel.
write_lockNoSentinel ==
    /\ Lock /\ Unlock
    /\ Running /\ callerPc = "w_lock"
    /\ wc' = conn
    /\ callerPc' = "w_writeReq"
    /\ UNCHANGED <<conn, r, bodyReading, re, we, reqch, respch, closech,
                   curReq, held, lastErr, lastDo, bodyOf, loopVars,
                   serverVars, ctlVars, panicked>>

\* write's first critical section (lines 78-83): c := cc.conn, and the
\* final-request sentinel when the request declares connection-close.
write_lock ==
    /\ Lock /\ Unlock
    /\ Running /\ callerPc = "w_lock"
    /\ wc' = conn
    /\ we' = IF curReq.Close THEN ErrPersistEOF ELSE we
    /\ callerPc' = "w_writeReq"
    /\ UNCHANGED <<conn, r, bodyReading, re, reqch, respch, closech, curReq,
                   held, lastErr, lastDo, bodyOf, loopVars, serverVars,
                   ctlVars, panicked>>

\* The outcomes of cc.writeReq(req, c): with c nil the request is either
\* refused before any byte is written or the flush dereferences nil; on a
\* transport closed by Close the write fails; otherwise it succeeds or the
\* transport fails.
WriteReqOutcomes ==
    IF wc = Nil THEN {"error", "panic"}
    ELSE IF nClosed > 0 THEN {"error"}
    ELSE {"ok", "error"}

\* writeReq and the critical section after it (lines 84-91).
write_writeReq ==
    /\ Running /\ callerPc = "w_writeReq"
    /\ \E out \in WriteReqOutcomes :
         \/ /\ out = "ok"
            /\ Lock /\ Unlock
            /\ pending' = Append(pending, curReq)
            /\ callerPc' = "w_push"
            /\ UNCHANGED <<we, lastErr, lastDo, panicked>>
         \/ /\ out = "error"
            /\ Lock /\ Unlock
            /\ we' = writeErr
            /\ callerPc' = "idle"
            /\ lastErr' = writeErr /\ lastDo' = "writeFailed"
            /\ UNCHANGED <<pending, panicked>>
         \/ /\ out = "panic"
            /\ panicked' = "writeReq"
            /\ UNCHANGED <<mu, we, callerPc, lastErr, lastDo, pending>>
    /\ UNCHANGED <<conn, r, bodyReading, re, reqch, respch, closech, curReq,
                   wc, held, bodyOf, loopVars, wireIn, serverClosed, ctlVars>>

\* cc.reqch <- req (line 92): blocks while the queue is full.
write_push ==
    /\ UNCHANGED mu
    /\ Running /\ callerPc = "w_push"
    /\ Len(reqch) < ReqChCap
    /\ reqch' = Append(reqch, curReq)
    /\ callerPc' = "read"
    /\ UNCHANGED <<conn, r, bodyReading, re, we, respch, closech, curReq, wc,
                   held, lastErr, lastDo, bodyOf, loopVars, serverVars,
                   ctlVars, panicked>>

\* ------------------------------------------------------------- read path
\* read, case resp = <-cc.respch (line 99): Do returns the response.
read_respch ==
    /\ UNCHANGED mu
    /\ Running /\ callerPc = "read"
    /\ respch # <<>>
    /\ held' = Head(respch)
    /\ respch' = Tail(respch)
    /\ lastErr' = Nil /\ lastDo' = "response"
    /\ callerPc' = "idle"
    /\ UNCHANGED <<conn, r, bodyReading, re, we, reqch, closech, curReq, wc,
                   bodyOf, loopVars, serverVars, ctlVars, panicked>>

\* read, case <-ctx.Done() (lines 100-102): the request's context may be
\* cancelled at any time; the cancellation error becomes the read error.
read_ctxDone ==
    /\ Lock /\ Unlock
    /\ Running /\ callerPc = "read"
    /\ re' = setReadError(ctxErr)
    /\ lastErr' = ctxErr /\ lastDo' = "cancelled"
    /\ callerPc' = "idle"
    /\ UNCHANGED <<conn, r, bodyReading, we, reqch, respch, closech, curReq,
                   wc, held, bodyOf, loopVars, serverVars, ctlVars, panicked>>

\* ------------------------------------------------------ Body-Drain Signal
\* The wrapper around resp.Body reports one outcome, once, on the channel
\* of the readLoop iteration that made it: true for a read that reached
\* end-of-data, false for a read that failed otherwise or an early Close.
BodyOpen == held # NoResp /\ bodyOf[held.Request.id] = "open"

bodySignal(state, outcome) ==
    /\ UNCHANGED mu
    /\ Running /\ callerPc = "idle" /\ BodyOpen
    /\ Len(waitForBodyRead) < WaitForBodyReadCap
    /\ bodyOf' = [bodyOf EXCEPT ![held.Request.id] = state]
    /\ waitForBodyRead' = Append(waitForBodyRead, outcome)
    /\ UNCHANGED <<ccVars, callerVars, rlPc, alive, rc, resp, serverVars,
                   ctlVars, panicked>>

\* The caller reads the body to its end-of-data condition: fn(io.EOF).
body_ReadEOF ==
    /\ BodyOpen
    /\ bodySignal("eof", TRUE)

\* A body read fails because the transport failed: fn(err), err # io.EOF.
body_ReadError ==
    /\ serverClosed \/ nClosed > 0
    /\ bodySignal("err", FALSE)

\* The caller closes the body before end-of-data: earlyCloseFn().
body_Close ==
    /\ BodyOpen
    /\ bodySignal("closed", FALSE)

\* -------------------------------------------------------- Hijack, Close
\* Hijack that forgets to empty cc.conn.
HijackStepKeepsConn == conn' = conn /\ r' = Nil

\* Hijack's assignments under the mutex (lines 112-113).
HijackStep == conn' = Nil /\ r' = Nil

\* A Hijack call by any goroutine.
Hijack ==
    /\ Lock /\ Unlock
    /\ Running
    /\ lastHijack' = <<conn, r>>
    /\ nReturned' = IF conn # Nil THEN nReturned + 1 ELSE nReturned
    /\ HijackStep
    /\ UNCHANGED <<bodyReading, re, we, reqch, respch, closech, callerVars,
                   bodyOf, loopVars, serverVars, closePc, lastPing, nClosed,
                   panicked>>

\* Close, c, _ := cc.Hijack() and the test of c (lines 118-119).
Close_Hijack ==
    /\ Lock /\ Unlock
    /\ Running /\ closePc = "idle"
    /\ closePc' = IF conn # Nil THEN "c.Close" ELSE "close(closech)"
    /\ HijackStep
    /\ UNCHANGED <<bodyReading, re, we, reqch, respch, closech, callerVars,
                   bodyOf, loopVars, serverVars, lastPing, lastHijack,
                   nReturned, nClosed, panicked>>

\* Close, return c.Close() (line 120).
Close_conn ==
    /\ UNCHANGED mu
    /\ Running /\ closePc = "c.Close"
    /\ nClosed' = nClosed + 1
    /\ closePc' = "idle"
    /\ UNCHANGED <<ccVars, callerVars, bodyOf, loopVars, serverVars, lastPing,
                   lastHijack, nReturned, panicked>>

\* Close, close(cc.closech) (lines 122-123): closing a nil or an already
\* closed channel panics.
Close_closech ==
    /\ UNCHANGED mu
    /\ Running /\ closePc = "close(closech)"
    /\ IF closech = "open"
       THEN /\ closech' = "closed" /\ closePc' = "idle"
            /\ UNCHANGED panicked
       ELSE /\ panicked' = "close(closech)"
            /\ UNCHANGED <<closech, closePc>>
    /\ UNCHANGED <<conn, r, bodyReading, re, we, reqch, respch, callerVars,
                   bodyOf, loopVars, serverVars, lastPing, lastHijack,
                   nReturned, nClosed>>

\* -------------------------------------------------------------- readLoop
\* readLoop reads cc.r without the mutex.  Once Hijack has set it to nil
\* the loop either loads nil and dereferences it, or still works on the
\* reader it loaded before (a call already in flight, or a stale load).
ReaderLoads == IF r = Nil THEN {"nil", "stale"} ELSE {"reader"}

\* hasBody without the test of the content length.
hasBodyIgnoresLength(q, kind) == q.Method # "HEAD"

\* hasBody (line 161).
hasBody(q, kind) == q.Method # "HEAD" /\ ContentLength(kind) # 0

\* The last-exchange test without the test of the status.
lastExchangeIgnoresStatus(q, kind) == RespClose(kind) \/ q.Close

\* The last-exchange test (line 162).
lastExchange(q, kind) == RespClose(kind) \/ q.Close \/ StatusCode(kind) <= 199

\* cc.r.Peek(1) (lines 150-154): succeeds once the server's bytes are
\* there, fails at end-of-stream or on a transport closed by Close.
readLoop_Peek ==
    /\ Running /\ rlPc = "peek"
    /\ \E ld \in ReaderLoads :
         \/ /\ ld = "nil"
            /\ panicked' = "Peek"
            /\ UNCHANGED <<mu, re, rlPc>>
         \/ /\ ld # "nil"
            /\ wireIn # <<>>
            /\ rlPc' = "reqch"
            /\ UNCHANGED <<mu, re, panicked>>
         \/ /\ ld # "nil"
            /\ \/ wireIn = <<>> /\ serverClosed
               \/ nClosed > 0
            /\ Lock /\ Unlock
            /\ re' = setReadError(ErrServerClosedConn)
            /\ rlPc' = "stopped"
            /\ UNCHANGED panicked
    /\ UNCHANGED <<conn, r, bodyReading, we, reqch, respch, closech,
                   callerVars, bodyOf, alive, rc, resp, waitForBodyRead,
                   serverVars, ctlVars>>

\* rc := <-cc.reqch (line 155).
readLoop_reqch ==
    /\ UNCHANGED mu
    /\ Running /\ rlPc = "reqch"
    /\ reqch # <<>>
    /\ rc' = Head(reqch)
    /\ reqch' = Tail(reqch)
    /\ rlPc' = "ReadResponse"
    /\ UNCHANGED <<conn, r, bodyReading, re, we, respch, closech, callerVars,
                   bodyOf, alive, resp, waitForBodyRead, serverVars, ctlVars,
                   panicked>>

\* http.ReadResponse and the decisions on its result (lines 156-168).
readLoop_ReadResponse ==
    /\ Running /\ rlPc = "ReadResponse"
    /\ \E ld \in ReaderLoads :
         \/ /\ ld = "nil"
            /\ panicked' = "ReadResponse"
            /\ UNCHANGED <<mu, re, rlPc, alive, resp, wireIn>>
         \/ /\ ld # "nil"
            /\ wireIn # <<>>
            /\ Head(wireIn).kind = "bad" \/ nClosed > 0
            /\ Lock /\ Unlock
            /\ re' = setReadError(parseErr)
            /\ rlPc' = "stopped"
            /\ wireIn' = Tail(wireIn)
            /\ UNCHANGED <<alive, resp, panicked>>
         \/ /\ ld # "nil"
            /\ wireIn # <<>>
            /\ Head(wireIn).kind # "bad"
            /\ LET w == Head(wireIn)
                   last == lastExchange(rc, w.kind)
               IN /\ resp' = [Request |-> rc, answers |-> w.answers,
                              kind |-> w.kind]
                  /\ IF last THEN Lock /\ Unlock ELSE UNCHANGED mu
                  /\ alive' = IF last THEN FALSE ELSE alive
                  /\ re' = IF last THEN setReadError(ErrServerClosedConn)
                           ELSE re
                  /\ rlPc' = IF hasBody(rc, w.kind) THEN "respch"
                             ELSE IF alive' THEN "peek" ELSE "stopped"
            /\ wireIn' = Tail(wireIn)
            /\ UNCHANGED panicked
    /\ UNCHANGED <<conn, r, bodyReading, we, reqch, respch, closech,
                   callerVars, bodyOf, rc, waitForBodyRead, pending,
                   serverClosed, ctlVars>>

\* The body is wrapped in its Body-Drain Signal and the response is
\* published: cc.respch <- resp (lines 169-182).
readLoop_respch ==
    /\ UNCHANGED mu
    /\ Running /\ rlPc = "respch"
    /\ Len(respch) < RespChCap
    /\ waitForBodyRead' = <<>>
    /\ bodyOf' = [bodyOf EXCEPT ![rc.id] = "open"]
    /\ respch' = Append(respch, resp)
    /\ rlPc' = "setBodyReading"
    /\ UNCHANGED <<conn, r, bodyReading, re, we, reqch, closech, callerVars,
                   alive, rc, resp, serverVars, ctlVars, panicked>>

\* cc.setBodyReading(true) (line 183).
readLoop_setBodyReading ==
    /\ Lock /\ Unlock
    /\ Running /\ rlPc = "setBodyReading"
    /\ bodyReading' = setBodyReading(TRUE)
    /\ rlPc' = "select"
    /\ UNCHANGED <<conn, r, re, we, reqch, respch, closech, callerVars,
                   bodyOf, alive, rc, resp, waitForBodyRead, serverVars,
                   ctlVars, panicked>>

\* A body outcome that resets the read error after a full drain.
bodyOutcomeErrorClears(bodyEOF) ==
    IF ~bodyEOF THEN setReadError(ErrBodyLeftData) ELSE Nil

\* The read error after a body outcome (lines 187-189).
bodyOutcomeError(bodyEOF) ==
    IF ~bodyEOF THEN setReadError(ErrBodyLeftData) ELSE re

\* The select on the body outcome and the teardown channel (lines
\* 184-192); a receive from a nil channel is never ready.
readLoop_select ==
    /\ Running /\ rlPc = "select"
    /\ \/ /\ waitForBodyRead # <<>>
          /\ LET bodyEOF == Head(waitForBodyRead)
             IN /\ IF bodyEOF THEN UNCHANGED mu ELSE Lock /\ Unlock
                /\ alive' = (alive /\ bodyEOF)
                /\ re' = bodyOutcomeError(bodyEOF)
          /\ waitForBodyRead' = Tail(waitForBodyRead)
       \/ /\ closech = "closed"
          /\ alive' = FALSE
          /\ UNCHANGED <<mu, re, waitForBodyRead>>
    /\ rlPc' = "clearBodyReading"
    /\ UNCHANGED <<conn, r, bodyReading, we, reqch, respch, closech,
                   callerVars, bodyOf, rc, resp, serverVars, ctlVars,
                   panicked>>

\* cc.setBodyReading(false) and the loop test (lines 193, 149).
readLoop_clearBodyReading ==
    /\ Lock /\ Unlock
    /\ Running /\ rlPc = "clearBodyReading"
    /\ bodyReading' = setBodyReading(FALSE)
    /\ rlPc' = IF alive THEN "peek" ELSE "stopped"
    /\ UNCHANGED <<conn, r, re, we, reqch, respch, closech, callerVars,
                   bodyOf, alive, rc, resp, waitForBodyRead, serverVars,
                   ctlVars, panicked>>

\* ---------------------------------------------------------------- server
\* The server answers the requests it received, in order, one response
\* each, as HTTP/1.1 requires.
server_Respond ==
    /\ UNCHANGED mu
    /\ Running /\ pending # <<>>
    /\ ~serverClosed /\ nClosed = 0
    /\ \E k \in RespKinds :
         wireIn' = Append(wireIn, [answers |-> Head(pending).id, kind |-> k])
    /\ pending' = Tail(pending)
    /\ UNCHANGED <<ccVars, callerVars, bodyOf, loopVars, serverClosed,
                   ctlVars, panicked>>

\* The server closes the connection: end-of-stream after what it sent.
server_Close ==
    /\ UNCHANGED mu
    /\ Running /\ ~serverClosed
    /\ serverClosed' = TRUE
    /\ UNCHANGED <<ccVars, callerVars, bodyOf, loopVars, pending, wireIn,
                   ctlVars, panicked>>

Next ==
    \/ CallPing
    \/ write_Ping \/ write_waitForBody \/ write_lock \/ write_writeReq
    \/ write_push
    \/ read_respch \/ read_ctxDone
    \/ body_ReadEOF \/ body_ReadError \/ body_Close
    \/ Hijack \/ Close_Hijack \/ Close_conn \/ Close_closech
    \/ readLoop_Peek \/ readLoop_reqch \/ readLoop_ReadResponse
    \/ readLoop_respch \/ readLoop_setBodyReading \/ readLoop_select
    \/ readLoop_clearBodyReading
    \/ server_Respond \/ server_Close

Spec == Init /\ [][Next]_vars

\* =============================================================== claims
\* The caller has passed both checks of write and goes on to serialize.
WriteAccepted == callerPc \in {"w_lock", "w_writeReq", "w_push", "read"}

\* The latest Do returned a response and no later Do has been issued.
DoReturnedResponse == callerPc = "idle" /\ lastDo = "response"

\* C1: every response Do returns is the response to that Do's own request:
\* it was parsed for that request (resp.Request) and it is the response the
\* server sent in answer to it; the response queue never holds a response
\* paired with another request than the one it answers.
C1_FifoCorrelation ==
    /\ DoReturnedResponse =>
         held.Request = curReq /\ held.answers = curReq.id
    /\ \A i \in 1..Len(respch) : respch[i].answers = respch[i].Request.id

\* C1 witness: the second Do of the caller returned a response.
C1_Witness == DoReturnedResponse /\ curReq.id = 2

\* C2: a Write never passes its checks while the body of the response the
\* caller holds has reached neither end-of-data nor Close.
C2_NoWriteWhileBodyPending == WriteAccepted => ~BodyOpen

\* C3: a sticky error that is set stays set over every step, Ping fails
\* from then on, and no Write passes the liveness check.
C3_StickyErrorsMonotonic ==
    [][(re # Nil \/ we # Nil) =>
         /\ re # Nil => re' # Nil
         /\ we # Nil => we' # Nil
         /\ Ping' # Nil
         /\ callerPc = "idle" => callerPc' # "w_waitForBody"]_vars

\* C3 witness: the read error was set by a drained last exchange, and a
\* later Do was rejected with it.
C3_Witness ==
    /\ re # Nil /\ callerPc = "idle"
    /\ lastDo = "rejected" /\ lastErr = re
    /\ held # NoResp /\ bodyOf[held.Request.id] = "eof"

\* C4: once Ping has returned a sticky error, Ping returns that error in
\* every later state.
C4_PingErrorStable ==
    lastPing \notin {"none", Nil, errClosed} => Ping = lastPing

\* The caller holds a response whose body it read to end-of-data, neither
\* the request nor the response signalled closure, the transport is open
\* and attached, and the caller is about to issue its next Write.
DrainedCleanly ==
    /\ DoReturnedResponse
    /\ bodyOf[held.Request.id] = "eof"
    /\ ~held.Request.Close /\ ~RespClose(held.kind)
    /\ ~serverClosed /\ nClosed = 0
    /\ conn # Nil /\ closePc = "idle"

\* C5: after a body drained to end-of-data on a connection that stays
\* open, the next Write passes the liveness check and the
\* body-still-pending check.
C5_UsableAfterDrain == DrainedCleanly => Ping = Nil /\ ~waitForBody

\* The caller closed the body of the response it holds before end-of-data.
ClosedEarly == held # NoResp /\ bodyOf[held.Request.id] = "closed"

\* C6: after an early Close of a body no Write passes its checks, and a
\* Write rejected on a connection with no other error fails with
\* ErrBodyLeftData.
C6_DeadAfterEarlyClose ==
    ClosedEarly =>
        /\ ~WriteAccepted
        /\ (callerPc = "idle" /\ lastDo = "rejected"
                /\ curReq.id > held.Request.id)
             => lastErr # ErrBodyWaitingRead

\* C7: after Read returned the cancellation error, Ping fails with that
\* error.
C7_CancelErrorSticks == lastDo = "cancelled" => Ping = ctxErr

\* C8: the transport is obtained by exactly one Hijack or Close call, it
\* is returned or closed at most once and never both, and every Hijack
\* returns either the full pair or the empty pair.
C8_TransportHandedOutOnce ==
    /\ nReturned + nClosed + (IF closePc = "c.Close" THEN 1 ELSE 0)
         = (IF conn = Nil THEN 1 ELSE 0)
    /\ conn = Nil <=> r = Nil
    /\ lastHijack \in {<<"none", "none">>, <<"c", "r">>, <<Nil, Nil>>}
    /\ lastHijack = <<"c", "r">> => nReturned = 1

\* C8 witness: a Hijack returned the empty pair after the transport had
\* been handed out.
C8_Witness == lastHijack = <<Nil, Nil>> /\ nReturned + nClosed = 1

\* C9 as stated: after Hijack has returned the transport, Ping fails with
\* errClosed whatever the sticky errors are.
C9_PingAfterHijackIsClosed == nReturned > 0 => Ping = errClosed

\* C9 as amended: after Hijack has returned the transport, Ping fails:
\* with the read error if set, else with the write error if set, else
\* with errClosed.
C9_PingAfterHijackFails ==
    nReturned > 0 =>
        /\ Ping # Nil
        /\ re # Nil => Ping = re
        /\ (re = Nil /\ we # Nil) => Ping = we
        /\ (re = Nil /\ we = Nil) => Ping = errClosed

\* C9 witness: Ping was called after Hijack on a connection with no sticky
\* error and returned errClosed.
C9_Witness ==
    nReturned > 0 /\ re = Nil /\ we = Nil /\ lastPing = errClosed

\* C10: Close on a connection whose transport is already detached
\* completes without failure.
C10_CloseOnDetachedCompletes == panicked # "close(closech)"
\* The Write of the current request, which declares connection-close, has
\* executed its first critical section.
CloseRequestWritten ==
    /\ curReq.Close
    /\ \/ callerPc \in {"w_writeReq", "w_push", "read"}
       \/ callerPc = "idle" /\ lastDo \in {"writeFailed", "cancelled",
                                           "response"}

\* C11: once the Write of a request that declares connection-close has
\* passed its checks and recorded the sentinel, the write error is set (the
\* sentinel or a later error), it stays set over every step, and no Write
\* issued from then on passes the liveness check.
C11_NoWriteAfterFinalRequest ==
    /\ [](CloseRequestWritten =>
            we \in {ErrPersistEOF, writeErr} /\ Ping # Nil)
    /\ [][we # Nil =>
            /\ we' # Nil /\ Ping' # Nil
            /\ callerPc = "idle" => callerPc' # "w_waitForBody"]_vars

\* C11 witness: a close-declaring request was written and answered; the
\* sentinel is the write error when its Do returns.
C11_Witness ==
    /\ CloseRequestWritten /\ callerPc = "idle" /\ lastDo = "response"
    /\ we = ErrPersistEOF

\* No body is expected for a response: the request method is HEAD or the
\* declared content length is zero.
NoBodyExpected(p) == p.Request.Method = "HEAD" \/ ContentLength(p.kind) = 0

\* C12: a response with no expected body is never on the response queue nor
\* returned by Do, no Body-Drain Signal is made and the body-in-progress
\* flag is not set for it, and the Read of its exchange is still waiting
\* unless the request was cancelled.
C12_BodylessNeverPublished ==
    /\ \A i \in 1..Len(respch) : ~NoBodyExpected(respch[i])
    /\ held # NoResp => ~NoBodyExpected(held)
    /\ (resp # NoResp /\ NoBodyExpected(resp)) =>
         /\ rlPc \in {"peek", "reqch", "stopped"}
         /\ bodyOf[resp.Request.id] = "none"
         /\ ~bodyReading
         /\ resp.Request = curReq =>
              \/ callerPc = "read"
              \/ callerPc = "idle" /\ lastDo = "cancelled"

\* C12 witness: the Read Loop parsed a bodyless response for the
\* outstanding request and went back to the probe; the Read still waits.
C12_Witness ==
    /\ resp # NoResp /\ NoBodyExpected(resp)
    /\ resp.Request = curReq /\ callerPc = "read"
    /\ rlPc = "peek" /\ respch = <<>>

\* C13: whenever write is at its push, the request queue has room.
C13_PushNeverBlocks == callerPc = "w_push" => Len(reqch) < ReqChCap

\* C13 witness: the second request of the caller is at its push after the
\* Read Loop has stopped.
C13_Witness == callerPc = "w_push" /\ curReq.id = 2 /\ rlPc = "stopped"
\* The Read Loop left its loop by a break: the probe or the parse failed.
StoppedOnFailure == rlPc = "stopped" /\ alive

\* C14: when the Read Loop has stopped on a probe or parse failure while
\* the caller's Read is pending, the Read can return without the request's
\* cancellation: there is something for it on the response queue.
C14_LoopFailureReachesRead ==
    (StoppedOnFailure /\ callerPc = "read") => respch # <<>>

\* A response has been published and its body has reached neither
\* end-of-data nor Close.
PublishedBodyPending == \E i \in 1..MaxReqs : bodyOf[i] = "open"

\* C15: the body-in-progress flag is true exactly while a published body
\* is pending.
C15_FlagTracksBody == bodyReading <=> PublishedBodyPending

\* The positions at which the caller waits for the transport or a queue:
\* writeReq, the push onto the request queue, the select of read.
CallerBlocks == callerPc \in {"w_writeReq", "w_push", "read"}

\* The positions at which the Read Loop waits: the probe, the pull from
\* the request queue, the parse, the push onto the response queue, the
\* select on the body outcome.
ReadLoopBlocks ==
    rlPc \in {"peek", "reqch", "ReadResponse", "respch", "select"}

\* C16: no goroutine holds the mutex at a position where it waits for the
\* transport or for a queue, and the mutex is free between any two steps,
\* so that Ping, Hijack and a cancellation can take it.
C16_NoBlockingUnderMutex ==
    /\ CallerBlocks => mu # "caller"
    /\ ReadLoopBlocks => mu # "readLoop"
    /\ mu = "free"

\* C16 witness: Hijack took the mutex and returned the transport while the
\* caller waited in read and the Read Loop waited in the parse.
C16_Witness ==
    /\ callerPc = "read" /\ rlPc = "ReadResponse"
    /\ lastHijack = <<"c", "r">> /\ mu = "free"

\* The response signals closure, its request did, or its status is
\* informational.
SignalsClosure(p) ==
    p.kind = "okClose" \/ p.Request.Close \/ StatusCode(p.kind) <= 199

\* C17: a response of a last exchange is published, and received, only
\* with the read error set, so that Ping fails; and once the Read Loop has
\* parsed such a response it is marked for termination and never probes,
\* pulls a request or parses again.
C17_LastExchangeStopsLoop ==
    /\ \A i \in 1..Len(respch) :
         SignalsClosure(respch[i]) =>
             re \in {ErrServerClosedConn, ctxErr} /\ Ping # Nil
    /\ (DoReturnedResponse /\ SignalsClosure(held)) =>
         re # Nil /\ Ping # Nil
    /\ (resp # NoResp /\ SignalsClosure(resp)) =>
         /\ ~alive
         /\ rlPc \notin {"peek", "reqch", "ReadResponse"}
         /\ rc = resp.Request

\* C17 witness: Do returned a response that signals closure and the Read
\* Loop has stopped after its body was drained.
C17_Witness ==
    /\ DoReturnedResponse /\ held.kind = "okClose"
    /\ re = ErrServerClosedConn /\ rlPc = "stopped"
    /\ bodyOf[held.Request.id] = "eof"
\* A step in which a Write returns at its liveness check or at its
\* body-still-pending check.
WriteRejectedStep ==
    /\ callerPc' = "idle" /\ lastDo' = "rejected"
    /\ \/ callerPc = "idle" /\ curReq' # curReq
       \/ callerPc = "w_waitForBody"

\* C18: a step that rejects a Write changes neither the transport, the two
\* queues, the sticky errors, the body-in-progress flag, the transport
\* handles nor the response the caller holds.
C18_RejectedWriteHasNoEffect ==
    [][WriteRejectedStep =>
         UNCHANGED <<pending, wireIn, reqch, respch, re, we, bodyReading,
                     conn, r, held, wc>>]_vars

\* C18 witness: a close-declaring request was rejected with
\* body-still-pending and the write error is unset.
C18_Witness ==
    /\ callerPc = "idle" /\ lastDo = "rejected"
    /\ lastErr = ErrBodyWaitingRead
    /\ curReq.Close /\ we = Nil

\* C19: once Hijack has returned the transport, the connection neither
\* serializes a request, nor probes, nor parses.
C19_NoUseAfterHijack ==
    [][nReturned > 0 =>
         ~(write_writeReq \/ readLoop_Peek \/ readLoop_ReadResponse)]_vars

\* C20 as stated: in every state in which the Read Loop has stopped, Ping
\* fails, and no step serializes a request or pushes one onto the request
\* queue.
C20_NoRequestOnceStopped ==
    [][rlPc = "stopped" =>
         Ping # Nil /\ ~(write_writeReq \/ write_push)]_vars

\* C20 as amended: in every state in which the Read Loop has stopped the
\* read error is set and Ping fails, and a Write that starts in such a
\* state does not pass the liveness check.
C20_StoppedMeansDead ==
    /\ [](rlPc = "stopped" => re # Nil /\ Ping # Nil)
    /\ [][(rlPc = "stopped" /\ callerPc = "idle") =>
            callerPc' # "w_waitForBody"]_vars

\* C20 witness: a Do issued after the Read Loop stopped at the end of a
\* fully drained last exchange was rejected.
C20_Witness ==
    /\ rlPc = "stopped" /\ ~alive
    /\ callerPc = "idle" /\ lastDo = "rejected" /\ lastErr = re
    /\ held # NoResp /\ bodyOf[held.Request.id] = "eof"
====
